---- MODULE Spec2Model ----
(***************************************************************************)
(* Model of the scheduling engine of roo-scheduler                         *)
(* (src/src/services/scheduler/SchedulerService.ts).                       *)
(*                                                                         *)
(* Instants are seconds of local time counted from the midnight that       *)
(* starts a Sunday; the local time zone has a fixed offset.  Every handler *)
(* of the service runs to completion up to its next awaited I/O operation  *)
(* (file read, file write, task start), as the Node event loop runs it.    *)
(***************************************************************************)
EXTENDS Integers, Sequences, FiniteSets, TLC

(* ---- values ---- *)
Undefined == -1
Null == -1
Fired == 0

(* ---- bounds of the model ---- *)
\* MaxExecs, MaxSaves and MaxTimeouts bound the task starts, the writes and
\* the Timeout objects outstanding for one schedule id
MaxTicks == 2
MaxExecs == 1
MaxSaves == 1
MaxTimeouts == 2
MaxStack == 3
MaxRequests == 2

(* ---- units (calculateNextExecutionTime, lines 247-256) ---- *)
MinuteSec == 60
HourSec == 3600
DaySec == 86400
DaysChecked == 7

(* ---- calendar helpers: Date in local time ---- *)
DayKeys == <<"sun", "mon", "tue", "wed", "thu", "fri", "sat">>

getDay(t) == (t \div DaySec) % 7

dayKey(t) == DayKeys[getDay(t) + 1]

OrZero(x) == IF x = Undefined THEN 0 ELSE x

startDateTime(s) ==
    s.startDate * DaySec + OrZero(s.startHour) * HourSec + OrZero(s.startMinute) * MinuteSec

expirationDateTime(s) ==
    s.expirationDate * DaySec
      + (IF s.expirationHour = Undefined THEN 23 ELSE s.expirationHour) * HourSec
      + (IF s.expirationMinute = Undefined THEN 59 ELSE s.expirationMinute) * MinuteSec
      + 59

UnitSec(unit) ==
    CASE unit = "minute" -> MinuteSec
      [] unit = "hour" -> HourSec
      [] unit = "day" -> DaySec
      [] OTHER -> 0

\* Math.ceil(a / b) for a >= 0, b > 0
Ceil(a, b) == (a + b - 1) \div b

\* nextTime.setMinutes / setHours / setDate (+ interval)
AddInterval(t, interval, unit) == t + interval * UnitSec(unit)

\* the test of the presence of selectedDays alone
HasSelectedDays_Present(s) == s.hasSelectedDays

\* selectedDays is modelled by the set of its keys whose flag is true, and
\* hasSelectedDays tells whether the field is present at all.
HasSelectedDays(s) ==
    /\ s.hasSelectedDays
    /\ s.selectedDays # {}

DaySelected(s, t) == dayKey(t) \in s.selectedDays

\* the day step without the reset to the start hour and minute
NextDayAtStart_KeepTime(s, t) == t + DaySec

\* setDate(getDate() + 1); setHours(startHour); setMinutes(startMinute); setSeconds(0)
NextDayAtStart(s, t) ==
    ((t \div DaySec) + 1) * DaySec + OrZero(s.startHour) * HourSec + OrZero(s.startMinute) * MinuteSec

RECURSIVE AdvanceToSelectedDay(_, _, _)
AdvanceToSelectedDay(s, t, daysChecked) ==
    IF daysChecked >= DaysChecked THEN Null
    ELSE IF DaySelected(s, t) THEN t
    ELSE AdvanceToSelectedDay(s, NextDayAtStart(s, t), daysChecked + 1)

\* with the periods rounded down instead of up
IntervalCandidate_Floor(s, t) ==
    IF s.lastExecutionTime # Undefined
    THEN AddInterval(s.lastExecutionTime, s.timeInterval, s.timeUnit)
    ELSE IF t > startDateTime(s)
         THEN startDateTime(s)
                + ((t - startDateTime(s)) \div (s.timeInterval * UnitSec(s.timeUnit)))
                    * (s.timeInterval * UnitSec(s.timeUnit))
         ELSE startDateTime(s)

IntervalCandidate(s, t) ==
    IF s.lastExecutionTime # Undefined
    THEN AddInterval(s.lastExecutionTime, s.timeInterval, s.timeUnit)
    ELSE IF t > startDateTime(s)
         THEN startDateTime(s)
                + Ceil(t - startDateTime(s), s.timeInterval * UnitSec(s.timeUnit))
                    * (s.timeInterval * UnitSec(s.timeUnit))
         ELSE startDateTime(s)

\* without the test of the expiration
calculateNextExecutionTime_NoExpiry(s, t) ==
    IF s.timeInterval = Undefined \/ s.timeUnit = "undefined" \/ s.startDate = Undefined
    THEN Null
    ELSE IF t < startDateTime(s)
    THEN startDateTime(s)
    ELSE IF HasSelectedDays(s)
    THEN AdvanceToSelectedDay(s, IntervalCandidate(s, t), 0)
    ELSE IntervalCandidate(s, t)

\* with the selected days applied to a start that lies ahead
calculateNextExecutionTime_StartOnSelectedDay(s, t) ==
    IF s.timeInterval = Undefined \/ s.timeUnit = "undefined" \/ s.startDate = Undefined
    THEN Null
    ELSE IF s.expirationDate # Undefined /\ t > expirationDateTime(s)
    THEN Null
    ELSE IF HasSelectedDays(s)
    THEN AdvanceToSelectedDay(s, IF t < startDateTime(s) THEN startDateTime(s) ELSE IntervalCandidate(s, t), 0)
    ELSE IF t < startDateTime(s)
    THEN startDateTime(s)
    ELSE IntervalCandidate(s, t)

\* without the return of startDateTime while the start lies ahead
calculateNextExecutionTime_NoStartCheck(s, t) ==
    IF s.timeInterval = Undefined \/ s.timeUnit = "undefined" \/ s.startDate = Undefined
    THEN Null
    ELSE IF s.expirationDate # Undefined /\ t > expirationDateTime(s)
    THEN Null
    ELSE IF HasSelectedDays(s)
    THEN AdvanceToSelectedDay(s, IntervalCandidate(s, t), 0)
    ELSE IntervalCandidate(s, t)

calculateNextExecutionTime(s, t) ==
    IF s.timeInterval = Undefined \/ s.timeUnit = "undefined" \/ s.startDate = Undefined
    THEN Null
    ELSE IF s.expirationDate # Undefined /\ t > expirationDateTime(s)
    THEN Null
    ELSE IF t < startDateTime(s)
    THEN startDateTime(s)
    ELSE IF HasSelectedDays(s)
    THEN AdvanceToSelectedDay(s, IntervalCandidate(s, t), 0)
    ELSE IntervalCandidate(s, t)

(* ---- the service ---- *)
\* log holds the lines the handler that ran last wrote to the output channel
\* (only those of executeSchedule and of the timer callbacks are kept);
\* requests counts the calls and events that reached the service from outside;
\* lastSignalTime is the instant of the last activity event (Null before the first).
\* activeTask tells whether the task stack of the Roo extension holds a task
\* (RooService.hasActiveTask); the service of this repository never reads it.
\* query is a call of RooService.isActiveTaskWithinDuration: what the Roo
\* extension answers (task stack, task history), the duration and the result.
VARIABLES now, lastActivityTime, lastSignalTime, schedules, file, timers, pending, execs, saves, reloads, log, requests, activeTask, query

vars == <<now, lastActivityTime, lastSignalTime, schedules, file, timers, pending, execs, saves, reloads, log, requests, activeTask, query>>

\* no call of RooService.isActiveTaskWithinDuration: the service makes none
NoQuery ==
    [taskStack |-> [present |-> FALSE, ids |-> <<>>],
     taskHistory |-> [present |-> FALSE, entries |-> <<>>],
     durationMs |-> 0, result |-> "none"]

ValidModes == {"code"}

\* getModeBySlug(mode) finds a mode configuration
getModeBySlug(mode) == mode \in ValidModes

findIndex(list, id) ==
    IF \E i \in 1..Len(list) : list[i].id = id
    THEN CHOOSE i \in 1..Len(list) : list[i].id = id /\ \A j \in 1..(i - 1) : list[j].id # id
    ELSE 0

\* the smallest positive number not in used: a fresh Timeout object or call
FreshIn(used) == CHOOSE n \in 1..(Cardinality(used) + 1) : n \notin used /\ \A m \in 1..(n - 1) : m \in used

Handles(st) == {p.handle : p \in st.pending} \cup {st.timers[i] : i \in DOMAIN st.timers}

Event(ev, s, due) == [ev |-> ev, id |-> s.id, schedule |-> s, due |-> due]

Logged(st, ev, s) == [st EXCEPT !.log = @ \cup {Event(ev, s, 0)}]

\* setTimeout(() => executeSchedule(schedule), delay); timers.set(schedule.id, timer)
setTimeout(st, s, next) ==
    LET h == FreshIn(Handles(st)) IN
    [st EXCEPT !.pending = @ \cup {[handle |-> h, schedule |-> s, due |-> next]},
               !.timers = [i \in DOMAIN @ \cup {s.id} |-> IF i = s.id THEN h ELSE @[i]]]

\* without the validation of the mode
processTask_NoValidation(st, s) ==
    LET k == FreshIn({e.k : e \in st.execs}) IN
    [st EXCEPT !.execs = @ \cup {[k |-> k, schedule |-> s, started |-> TRUE]},
               !.log = @ \cup {Event("start", s, 0)}]

\* await processTask(mode, taskInstructions) up to the call of the task runner:
\* an invalid mode throws before RooService.startTaskWithMode is called
processTask(st, s) ==
    LET k == FreshIn({e.k : e \in st.execs}) IN
    [st EXCEPT !.execs = @ \cup {[k |-> k, schedule |-> s, started |-> getModeBySlug(s.mode)]},
               !.log = @ \cup (IF getModeBySlug(s.mode) THEN {Event("start", s, 0)} ELSE {})]

lastExecutionOrEpoch(s) == IF s.lastExecutionTime # Undefined THEN s.lastExecutionTime ELSE 0

RECURSIVE setupTimerForSchedule(_, _, _)
RECURSIVE executeSchedule(_, _, _)

\* depth counts the frames of the synchronous call chain; beyond MaxStack the
\* engine raises RangeError, which the innermost async frame turns into a
\* rejected promise that nobody handles, and the chain unwinds without arming.
setupTimerForSchedule(st, s, depth) ==
    IF depth > MaxStack THEN Logged(st, "RangeError", s)
    ELSE IF s.active = "false" THEN st
    ELSE IF s.scheduleType # "time" THEN st
    ELSE IF calculateNextExecutionTime(s, now) = Null THEN st
    ELSE IF calculateNextExecutionTime(s, now) - now <= 0
    THEN executeSchedule(st, s, depth + 1)
    ELSE setTimeout(st, s, calculateNextExecutionTime(s, now))

\* without the requireActivity check
executeSchedule_NoGate(st, s, depth) ==
    IF depth > MaxStack THEN Logged(st, "RangeError", s)
    ELSE IF s.active = "false" THEN st
    ELSE processTask(st, s)

\* executeSchedule up to its first await
executeSchedule(st, s, depth) ==
    IF depth > MaxStack THEN Logged(st, "RangeError", s)
    ELSE IF s.active = "false" THEN st
    ELSE IF s.requireActivity /\ lastActivityTime <= lastExecutionOrEpoch(s)
    THEN setupTimerForSchedule(Logged(st, "skip", s), s, depth + 1)
    ELSE processTask(st, s)

RECURSIVE setupEach(_, _, _)
setupEach(st, list, i) ==
    IF i > Len(list) THEN st
    ELSE IF list[i].active = "false" THEN setupEach(st, list, i + 1)
    ELSE setupEach(setupTimerForSchedule(st, list[i], 1), list, i + 1)

\* clearTimeout on every handle of the map, timers.clear(), then one setup per schedule
setupTimers(st, list) ==
    setupEach([st EXCEPT !.pending = {p \in @ : \A i \in DOMAIN st.timers : st.timers[i] # p.handle},
                         !.timers = <<>>],
              list, 1)

(* ---- the schedules the store may hold ---- *)
Ids == {1}

\* a schedule as the editor creates it: every minute from 00:00 of day 0
BaseSchedule(id) ==
    [id |-> id, mode |-> "code", scheduleType |-> "time",
     timeInterval |-> 1, timeUnit |-> "minute",
     hasSelectedDays |-> FALSE, selectedDays |-> {},
     startDate |-> 0, startHour |-> 0, startMinute |-> 0,
     expirationDate |-> Undefined, expirationHour |-> Undefined, expirationMinute |-> Undefined,
     requireActivity |-> FALSE, active |-> "undefined", lastExecutionTime |-> Undefined,
     lastSkippedTime |-> Undefined, taskInteraction |-> "wait", inactivityDelay |-> 10]

\* gated on activity, last executed at the epoch minute
ActivitySchedule(id) == [BaseSchedule(id) EXCEPT !.requireActivity = TRUE, !.lastExecutionTime = 0]

\* expires at 00:01:59 of day 0
ExpiringSchedule(id) ==
    [BaseSchedule(id) EXCEPT !.expirationDate = 0, !.expirationHour = 0, !.expirationMinute = 1]

\* last executed at the epoch minute, then edited to start again at 00:02 of day 0
LateSchedule(id) == [BaseSchedule(id) EXCEPT !.startMinute = 2, !.lastExecutionTime = 0]

\* a mode slug that getModeBySlug does not know
UnknownModeSchedule(id) == [BaseSchedule(id) EXCEPT !.mode = "unknown"]

Documents ==
    {<<>>, <<BaseSchedule(1)>>, <<ActivitySchedule(1)>>, <<ExpiringSchedule(1)>>, <<LateSchedule(1)>>,
     <<UnknownModeSchedule(1)>>}

(* ---- state after construction, one minute after the epoch ---- *)
InitOf(docs) ==
    /\ now = MinuteSec
    /\ lastActivityTime = MinuteSec
    /\ lastSignalTime = Null
    /\ schedules = <<>>
    /\ file \in docs
    /\ timers = <<>>
    /\ pending = {}
    /\ execs = {}
    /\ saves = {}
    /\ reloads = {}
    /\ log = {}
    /\ requests = 0
    /\ activeTask = FALSE
    /\ query = NoQuery

St == [timers |-> timers, pending |-> pending, execs |-> execs, log |-> {}]

Install(st) ==
    /\ \A p \in st.pending : Cardinality({q \in st.pending : q.schedule.id = p.schedule.id}) <= MaxTimeouts
    /\ \A e \in st.execs : Cardinality({f \in st.execs : f.schedule.id = e.schedule.id}) <= MaxExecs
    /\ timers' = st.timers
    /\ pending' = st.pending
    /\ execs' = st.execs
    /\ log' = st.log

(* ---- the clock and the collaborators ---- *)
\* the clock is read at half-minute steps
TickSec == MinuteSec \div 2

Tick ==
    /\ now < MinuteSec + MaxTicks * TickSec
    /\ now' = now + TickSec
    /\ log' = {}
    /\ UNCHANGED <<query, activeTask, lastActivityTime, lastSignalTime, schedules, file, timers, pending, execs, saves, reloads, requests>>

updateLastActivityTime ==
    /\ requests < MaxRequests
    /\ requests' = requests + 1
    /\ lastActivityTime' = now
    /\ lastSignalTime' = now
    /\ log' = {}
    /\ UNCHANGED <<query, activeTask, now, schedules, file, timers, pending, execs, saves, reloads>>

\* the task of the Roo extension ends: its task stack is empty again
taskCompleted ==
    /\ requests < MaxRequests
    /\ requests' = requests + 1
    /\ activeTask
    /\ activeTask' = FALSE
    /\ log' = {}
    /\ UNCHANGED <<query, now, lastActivityTime, lastSignalTime, schedules, file, timers, pending, execs, saves, reloads>>

\* the editor writes the schedules file
ExternalEdit(doc) ==
    /\ requests < MaxRequests
    /\ requests' = requests + 1
    /\ doc # file
    /\ file' = doc
    /\ log' = {}
    /\ UNCHANGED <<query, activeTask, now, lastActivityTime, lastSignalTime, schedules, timers, pending, execs, saves, reloads>>

(* ---- timer callback ---- *)
\* a callback that cannot run while a call of the task runner is awaited
TimerFire_Serial(p) ==
    /\ p \in pending
    /\ p.due <= now
    /\ execs = {}
    /\ Install(executeSchedule(
          [St EXCEPT !.pending = @ \ {p},
                     !.timers = [i \in DOMAIN @ |-> IF @[i] = p.handle THEN Fired ELSE @[i]],
                     !.log = {Event("fire", p.schedule, p.due)}],
          p.schedule, 1))
    /\ UNCHANGED <<query, activeTask, now, lastActivityTime, lastSignalTime, schedules, file, saves, reloads, requests>>

\* the Timeout object stays in the map after it fired; the dead handle is named Fired
TimerFire(p) ==
    /\ p \in pending
    /\ p.due <= now
    /\ Install(executeSchedule(
          [St EXCEPT !.pending = @ \ {p},
                     !.timers = [i \in DOMAIN @ |-> IF @[i] = p.handle THEN Fired ELSE @[i]],
                     !.log = {Event("fire", p.schedule, p.due)}],
          p.schedule, 1))
    /\ UNCHANGED <<query, activeTask, now, lastActivityTime, lastSignalTime, schedules, file, saves, reloads, requests>>

(* ---- executeSchedule after await processTask ---- *)
\* without the assignment of the merged schedule to the list
updateSchedule_NoMerge(list, id, field, value) == list

\* with the update merged into every schedule of the list
updateSchedule_Every(list, id, field, value) ==
    [i \in DOMAIN list |-> [list[i] EXCEPT ![field] = value]]

\* updateSchedule(id, updates) up to the write: the list after the merge
updateSchedule(list, id, field, value) ==
    IF findIndex(list, id) = 0 THEN list
    ELSE [list EXCEPT ![findIndex(list, id)] = [@ EXCEPT ![field] = value]]

\* a call of updateSchedule awaiting the write: snapshot is the schedule object
\* its caller holds, updated the merged schedule, content the list serialised
Save(kind, id, active, snapshot) ==
    [k |-> FreshIn({w.k : w \in saves}), kind |-> kind, id |-> id, active |-> active,
     snapshot |-> snapshot,
     updated |-> schedules'[findIndex(schedules', id)], content |-> schedules']

\* an update that records the instant one minute ahead of the clock
processTaskResolved_Ahead(e) ==
    /\ e \in execs
    /\ e.started
    /\ schedules' = updateSchedule(schedules, e.schedule.id, "lastExecutionTime", now + MinuteSec)
    /\ saves' = IF findIndex(schedules, e.schedule.id) = 0 THEN saves
                ELSE saves \cup {Save("execute", e.schedule.id, "undefined", e.schedule)}
    /\ \A w \in saves' : Cardinality({v \in saves' : v.id = w.id}) <= MaxSaves
    /\ execs' = execs \ {e}
    /\ log' = {Event("resolved", e.schedule, 0)}
    /\ activeTask' = TRUE
    /\ UNCHANGED <<query, now, lastActivityTime, lastSignalTime, file, timers, pending, reloads, requests>>

processTaskResolved(e) ==
    /\ e \in execs
    /\ e.started
    /\ schedules' = updateSchedule(schedules, e.schedule.id, "lastExecutionTime", now)
    /\ saves' = IF findIndex(schedules, e.schedule.id) = 0 THEN saves
                ELSE saves \cup {Save("execute", e.schedule.id, "undefined", e.schedule)}
    /\ \A w \in saves' : Cardinality({v \in saves' : v.id = w.id}) <= MaxSaves
    /\ execs' = execs \ {e}
    /\ log' = {Event("resolved", e.schedule, 0)}
    /\ activeTask' = TRUE
    /\ UNCHANGED <<query, now, lastActivityTime, lastSignalTime, file, timers, pending, reloads, requests>>

\* a catch block that only logs
processTaskRejected_NoRearm(e) ==
    /\ e \in execs
    /\ execs' = execs \ {e}
    /\ log' = {Event("error", e.schedule, 0)}
    /\ UNCHANGED <<query, activeTask, now, lastActivityTime, lastSignalTime, schedules, file, timers, pending, saves, reloads, requests>>

processTaskRejected(e) ==
    /\ e \in execs
    /\ Install(setupTimerForSchedule(Logged([St EXCEPT !.execs = @ \ {e}], "error", e.schedule),
                                     e.schedule, 1))
    /\ UNCHANGED <<query, activeTask, now, lastActivityTime, lastSignalTime, schedules, file, saves, reloads, requests>>

(* ---- toggleScheduleActive up to the write ---- *)
toggleScheduleActive(id, active) ==
    /\ requests < MaxRequests
    /\ requests' = requests + 1
    /\ findIndex(schedules, id) # 0
    /\ schedules[findIndex(schedules, id)].active # active
    /\ schedules' = updateSchedule(schedules, id, "active", active)
    /\ saves' = saves \cup {Save("toggle", id, active, schedules[findIndex(schedules, id)])}
    /\ \A w \in saves' : Cardinality({v \in saves' : v.id = w.id}) <= MaxSaves
    /\ log' = {}
    /\ UNCHANGED <<query, activeTask, now, lastActivityTime, lastSignalTime, file, timers, pending, execs, reloads>>

\* timers.get(id); if (timer) { clearTimeout(timer); timers.delete(id) }
clearTimer(st, s) ==
    IF s.id \notin DOMAIN st.timers THEN st
    ELSE Logged([st EXCEPT !.pending = {p \in @ : p.handle # st.timers[s.id]},
                           !.timers = [i \in DOMAIN @ \ {s.id} |-> @[i]]],
                "deactivated", s)

(* ---- saveSchedules settles; the caller continues ---- *)
\* the lines saveSchedules and its caller write when the write has settled
Settled(st, w, ok) ==
    LET st1 == IF ok THEN st ELSE Logged(st, "writeError", w.updated) IN
    IF w.kind = "execute" THEN Logged(Logged(st1, "ran", w.snapshot), "saved", w.updated)
    ELSE IF w.active = "true" THEN Logged(st1, "activated", w.updated)
    ELSE st1

\* a continuation that re-arms from the schedule object the execution started with
writeFileSettled_Stale(w, ok) ==
    /\ w \in saves
    /\ saves' = saves \ {w}
    /\ file' = IF ok THEN w.content ELSE file
    /\ Install(IF w.kind = "execute" \/ w.active = "true"
               THEN setupTimerForSchedule(Settled(St, w, ok), w.snapshot, 1)
               ELSE clearTimer(Settled(St, w, ok), w.updated))
    /\ UNCHANGED <<query, activeTask, now, lastActivityTime, lastSignalTime, schedules, reloads, requests>>

\* a saveSchedules that lets the error of the write escape to its caller
writeFileSettled_Throws(w, ok) ==
    /\ w \in saves
    /\ saves' = saves \ {w}
    /\ file' = IF ok THEN w.content ELSE file
    /\ Install(IF ~ok THEN Logged(St, "writeError", w.updated)
               ELSE IF w.kind = "execute" \/ w.active = "true"
               THEN setupTimerForSchedule(Settled(St, w, ok), w.updated, 1)
               ELSE clearTimer(Settled(St, w, ok), w.updated))
    /\ UNCHANGED <<query, activeTask, now, lastActivityTime, lastSignalTime, schedules, reloads, requests>>

writeFileSettled(w, ok) ==
    /\ w \in saves
    /\ saves' = saves \ {w}
    /\ file' = IF ok THEN w.content ELSE file
    /\ Install(IF w.kind = "execute" \/ w.active = "true"
               THEN setupTimerForSchedule(Settled(St, w, ok), w.updated, 1)
               ELSE clearTimer(Settled(St, w, ok), w.updated))
    /\ UNCHANGED <<query, activeTask, now, lastActivityTime, lastSignalTime, schedules, reloads, requests>>

(* ---- initialize / reloadSchedulesAndReschedule ---- *)
\* the call up to the moment the file is read; a file that is missing or
\* cannot be read or parsed reads as the empty list
reloadSchedulesAndReschedule ==
    /\ requests < MaxRequests
    /\ requests' = requests + 1
    /\ reloads = {}
    /\ reloads' = {[content |-> file]}
    /\ log' = {}
    /\ UNCHANGED <<query, activeTask, now, lastActivityTime, lastSignalTime, schedules, file, timers, pending, execs, saves>>

\* this.schedules = data.schedules; setupTimers()
loadSchedulesSettled(r) ==
    /\ r \in reloads
    /\ reloads' = reloads \ {r}
    /\ schedules' = r.content
    /\ Install(setupTimers(St, r.content))
    /\ UNCHANGED <<query, activeTask, now, lastActivityTime, lastSignalTime, file, saves, requests>>

StepOf(docs) ==
    \/ Tick
    \/ updateLastActivityTime
    \/ taskCompleted
    \/ \E doc \in docs : ExternalEdit(doc)
    \/ \E p \in pending : TimerFire(p)
    \/ \E e \in execs : processTaskResolved(e)
    \/ \E e \in execs : processTaskRejected(e)
    \/ \E id \in Ids, active \in {"true", "false"} : toggleScheduleActive(id, active)
    \/ \E w \in saves, ok \in BOOLEAN : writeFileSettled(w, ok)
    \/ reloadSchedulesAndReschedule
    \/ \E r \in reloads : loadSchedulesSettled(r)

Init == InitOf(Documents)

Next == StepOf(Documents)

Spec == Init /\ [][Next]_vars

\* the service once the extension has called initialize(): the first read of
\* the schedules file is awaited
InitStarted ==
    /\ now = MinuteSec
    /\ lastActivityTime = MinuteSec
    /\ lastSignalTime = Null
    /\ schedules = <<>>
    /\ file \in Documents
    /\ timers = <<>>
    /\ pending = {}
    /\ execs = {}
    /\ saves = {}
    /\ reloads = {[content |-> file]}
    /\ log = {}
    /\ requests = 0
    /\ activeTask = FALSE
    /\ query = NoQuery

SpecStarted == InitStarted /\ [][Next]_vars

(* ---- schedules with each task interaction option of the editor ---- *)
SkipSchedule(id) == [BaseSchedule(id) EXCEPT !.taskInteraction = "skip"]

InterruptSchedule(id) == [BaseSchedule(id) EXCEPT !.taskInteraction = "interrupt"]

\* BaseSchedule carries the editor's default, "wait"
InteractionDocuments == {<<BaseSchedule(1)>>, <<SkipSchedule(1)>>, <<InterruptSchedule(1)>>}

\* initialize() awaiting the first read, the Roo extension with or without a task
InitInteraction ==
    /\ now = MinuteSec
    /\ lastActivityTime = MinuteSec
    /\ lastSignalTime = Null
    /\ schedules = <<>>
    /\ file \in InteractionDocuments
    /\ timers = <<>>
    /\ pending = {}
    /\ execs = {}
    /\ saves = {}
    /\ reloads = {[content |-> file]}
    /\ log = {}
    /\ requests = 0
    /\ activeTask \in BOOLEAN
    /\ query = NoQuery

SpecInteraction == InitInteraction /\ [][Next]_vars

(* ---- two schedules of one store ---- *)
\* starts at 00:02 of day 0
SecondSchedule(id) == [BaseSchedule(id) EXCEPT !.startMinute = 2]

\* initialize() awaiting the first read of a file with two schedules
InitTwo ==
    /\ now = MinuteSec
    /\ lastActivityTime = MinuteSec
    /\ lastSignalTime = Null
    /\ schedules = <<>>
    /\ file = <<BaseSchedule(1), SecondSchedule(2)>>
    /\ timers = <<>>
    /\ pending = {}
    /\ execs = {}
    /\ saves = {}
    /\ reloads = {[content |-> file]}
    /\ log = {}
    /\ requests = 0
    /\ activeTask = FALSE
    /\ query = NoQuery

\* the timers, the task runner and the file system act; nobody calls the service
NextTwo ==
    \/ Tick
    \/ \E p \in pending : TimerFire(p)
    \/ \E e \in execs : processTaskResolved(e)
    \/ \E e \in execs : processTaskRejected(e)
    \/ \E w \in saves, ok \in BOOLEAN : writeFileSettled(w, ok)
    \/ \E r \in reloads : loadSchedulesSettled(r)

SpecTwo == InitTwo /\ [][NextTwo]_vars

\* a schedule the user has deactivated, last executed at the epoch minute
DormantSchedule(id) == [BaseSchedule(id) EXCEPT !.active = "false", !.lastExecutionTime = 0]

\* initialize() awaiting the first read of a file that lists a dormant
\* schedule before an active one
InitListed ==
    /\ now = MinuteSec
    /\ lastActivityTime = MinuteSec
    /\ lastSignalTime = Null
    /\ schedules = <<>>
    /\ file = <<DormantSchedule(2), BaseSchedule(1)>>
    /\ timers = <<>>
    /\ pending = {}
    /\ execs = {}
    /\ saves = {}
    /\ reloads = {[content |-> file]}
    /\ log = {}
    /\ requests = 0
    /\ activeTask = FALSE
    /\ query = NoQuery

\* the timers, the task runner and the file system act, and the user toggles
NextListed ==
    \/ NextTwo
    \/ \E id \in Ids, active \in {"true", "false"} : toggleScheduleActive(id, active)

SpecListed == InitListed /\ [][NextListed]_vars

(* ---- the schedules file removed under the running service ---- *)
\* initialize() has read one of the documents and awaits the continuation;
\* the file has been removed since
InitRemoved ==
    /\ now = MinuteSec
    /\ lastActivityTime = MinuteSec
    /\ lastSignalTime = Null
    /\ schedules = <<>>
    /\ file = <<>>
    /\ timers = <<>>
    /\ pending = {}
    /\ execs = {}
    /\ saves = {}
    /\ reloads \in {{[content |-> doc]} : doc \in Documents \ {<<>>}}
    /\ log = {}
    /\ requests = 0
    /\ activeTask = FALSE
    /\ query = NoQuery

SpecRemoved == InitRemoved /\ [][Next]_vars

(* ---- the service as the only writer of the file, every write succeeding ---- *)
NextReloaded ==
    \/ Tick
    \/ \E p \in pending : TimerFire(p)
    \/ \E e \in execs : processTaskResolved(e)
    \/ \E e \in execs : processTaskRejected(e)
    \/ \E w \in saves : writeFileSettled(w, TRUE)
    \/ reloadSchedulesAndReschedule
    \/ \E r \in reloads : loadSchedulesSettled(r)

SpecReloaded == InitStarted /\ [][NextReloaded]_vars

(* ---- RooService: the activity of the active task ---- *)
\* the entries of the task history that belong to the task
EntriesOf(taskHistory, id) == SelectSeq(taskHistory.entries, LAMBDA entry : entry.id = id)

\* with the first entry of the active task instead of the last
getLastActivityTimeForActiveTask_First(taskStack, taskHistory) ==
    IF ~taskStack.present \/ Len(taskStack.ids) = 0 THEN Undefined
    ELSE IF ~taskHistory.present THEN Undefined
    ELSE IF Len(EntriesOf(taskHistory, taskStack.ids[Len(taskStack.ids)])) = 0 THEN Undefined
    ELSE EntriesOf(taskHistory, taskStack.ids[Len(taskStack.ids)])[1].ts

getLastActivityTimeForActiveTask(taskStack, taskHistory) ==
    IF ~taskStack.present \/ Len(taskStack.ids) = 0 THEN Undefined
    ELSE IF ~taskHistory.present THEN Undefined
    ELSE IF Len(EntriesOf(taskHistory, taskStack.ids[Len(taskStack.ids)])) = 0 THEN Undefined
    ELSE EntriesOf(taskHistory, taskStack.ids[Len(taskStack.ids)])
            [Len(EntriesOf(taskHistory, taskStack.ids[Len(taskStack.ids)]))].ts

\* the timestamps of the history are clock readings, none of them the falsy 0
isActiveTaskWithinDuration(taskStack, taskHistory, durationMs) ==
    IF getLastActivityTimeForActiveTask(taskStack, taskHistory) = Undefined THEN FALSE
    ELSE now - getLastActivityTimeForActiveTask(taskStack, taskHistory) <= durationMs

\* the task ids, timestamps and durations of the calls
TaskIds == {1, 2}

Timestamps == {TickSec, MinuteSec}

Durations == {0, TickSec, MinuteSec}

HistoryEntries == [id : TaskIds, ts : Timestamps]

TaskStacks ==
    {[present |-> FALSE, ids |-> <<>>]}
      \cup {[present |-> TRUE, ids |-> ids] : ids \in {<<>>, <<1>>, <<2>>, <<1, 2>>, <<2, 1>>}}

TaskHistories ==
    {[present |-> FALSE, entries |-> <<>>]}
      \cup {[present |-> TRUE, entries |-> es] :
              es \in {<<>>} \cup {<<a>> : a \in HistoryEntries}
                         \cup {<<a, b>> : a \in HistoryEntries, b \in HistoryEntries}}

\* a call of isActiveTaskWithinDuration is made at one of three clock readings
InitRoo ==
    /\ now \in {MinuteSec, MinuteSec + TickSec, 2 * MinuteSec}
    /\ lastActivityTime = now
    /\ lastSignalTime = Null
    /\ schedules = <<>>
    /\ file = <<>>
    /\ timers = <<>>
    /\ pending = {}
    /\ execs = {}
    /\ saves = {}
    /\ reloads = {}
    /\ log = {}
    /\ requests = 0
    /\ query \in {[taskStack |-> st, taskHistory |-> h, durationMs |-> d, result |-> "pending"] :
                    st \in TaskStacks, h \in TaskHistories, d \in Durations}
    /\ activeTask = (query.taskStack.present /\ Len(query.taskStack.ids) > 0)

\* the promise of the call resolves
isActiveTaskWithinDurationReturns ==
    /\ query.result = "pending"
    /\ query' = [query EXCEPT !.result =
                    IF isActiveTaskWithinDuration(query.taskStack, query.taskHistory, query.durationMs)
                    THEN "true" ELSE "false"]
    /\ UNCHANGED <<now, lastActivityTime, lastSignalTime, schedules, file, timers, pending, execs,
                   saves, reloads, log, requests, activeTask>>

NextRoo == isActiveTaskWithinDurationReturns

SpecRoo == InitRoo /\ [][NextRoo]_vars

(* ---- calculateNextExecutionTime and setupTimerForSchedule on a range of schedules ---- *)
\* the selectedDays objects: absent, all flags false, Sunday only, Monday only,
\* Saturday only, Tuesday and Thursday
DaySelections ==
    {[has |-> FALSE, days |-> {}], [has |-> TRUE, days |-> {}],
     [has |-> TRUE, days |-> {"sun"}], [has |-> TRUE, days |-> {"mon"}],
     [has |-> TRUE, days |-> {"sat"}], [has |-> TRUE, days |-> {"tue", "thu"}]}

\* no expiration, 00:01 of day 0, day 0 without hour and minute, 00:01 of day 1
Expirations ==
    {[date |-> Undefined, hour |-> Undefined, minute |-> Undefined],
     [date |-> 0, hour |-> 0, minute |-> 1],
     [date |-> 0, hour |-> Undefined, minute |-> Undefined],
     [date |-> 1, hour |-> 0, minute |-> 1]}

ComputeSchedules ==
    {[BaseSchedule(1) EXCEPT !.timeInterval = i, !.timeUnit = u,
                             !.startDate = sd, !.startMinute = sm,
                             !.expirationDate = x.date, !.expirationHour = x.hour,
                             !.expirationMinute = x.minute,
                             !.lastExecutionTime = le, !.lastSkippedTime = ls,
                             !.hasSelectedDays = d.has, !.selectedDays = d.days] :
        i \in {1, 2}, u \in {"minute", "hour", "day"}, sd \in {0, 1}, sm \in {Undefined, 2},
        x \in Expirations, le \in {Undefined, 0, MinuteSec}, ls \in {Undefined, 0, 2 * MinuteSec},
        d \in DaySelections}

\* clock readings of day 0, day 1 and day 2
ComputeTimes ==
    {MinuteSec, 2 * MinuteSec, 2 * MinuteSec + TickSec, HourSec,
     DaySec + MinuteSec, DaySec + 2 * MinuteSec, 2 * DaySec}

\* the service constructed at one of the clock readings, initialize() awaiting
\* the read of a file that holds one of the schedules, executed or skipped in the past
InitCompute ==
    /\ now \in ComputeTimes
    /\ lastActivityTime = now
    /\ lastSignalTime = Null
    /\ schedules = <<>>
    /\ file \in {<<s>> : s \in {c \in ComputeSchedules :
                                   c.lastExecutionTime <= now /\ c.lastSkippedTime <= now}}
    /\ timers = <<>>
    /\ pending = {}
    /\ execs = {}
    /\ saves = {}
    /\ reloads = {[content |-> file]}
    /\ log = {}
    /\ requests = 0
    /\ activeTask = FALSE
    /\ query = NoQuery

NextCompute == \E r \in reloads : loadSchedulesSettled(r)

SpecCompute == InitCompute /\ [][NextCompute]_vars

(* ---- properties ---- *)
LiveTimers(id) == {p \in pending : p.schedule.id = id}

Stored(id) == schedules[findIndex(schedules, id)]

Starts == {ev \in log : ev.ev = "start"}

\* the timer callbacks of the last step whose schedule is gated on activity
\* and saw no activity since its last execution
InactiveFirings ==
    {ev \in log : /\ ev.ev = "fire"
                  /\ ev.schedule.active # "false"
                  /\ ev.schedule.requireActivity
                  /\ lastActivityTime <= lastExecutionOrEpoch(ev.schedule)}

\* C1: in every reachable state each schedule id has at most one live timer.
C1_OneLiveTimer == \A id \in Ids : Cardinality(LiveTimers(id)) <= 1

\* C2: the task runner is never started for a schedule that is deactivated
\* in the store or absent from the loaded list.
C2_CancelledNeverFires ==
    \A ev \in Starts : findIndex(schedules, ev.id) # 0 /\ Stored(ev.id).active # "false"

\* C3: a schedule whose stored active flag is false has no pending timer.
C3_InactiveHasNoTimer ==
    \A i \in 1..Len(schedules) : schedules[i].active = "false" => LiveTimers(schedules[i].id) = {}

\* C4: the task runner is never started for a schedule after its expiration instant.
C4_NoStartAfterExpiration ==
    \A ev \in Starts : ev.schedule.expirationDate # Undefined => now <= expirationDateTime(ev.schedule)

\* C5: the task runner is started for a schedule only at clock times greater
\* than or equal to the startDateTime of the schedule it is started for.
C5_NoStartBeforeStart ==
    \A ev \in Starts : ev.schedule.startDate # Undefined => now >= startDateTime(ev.schedule)

C5_Witness ==
    \E ev \in Starts : ev.schedule.startMinute = 2 /\ now = startDateTime(ev.schedule)

\* C6: whenever the task runner is started for a schedule with requireActivity,
\* an activity signal was recorded strictly after its lastExecutionTime.
C6_ActivitySinceLastExecution ==
    \A ev \in Starts : ev.schedule.requireActivity =>
        lastSignalTime # Null /\ lastSignalTime > lastExecutionOrEpoch(ev.schedule)

\* C7: a firing skipped for inactivity starts no task, changes no schedule
\* and writes nothing to the store.
C7_SkipIsNoOp ==
    [][InactiveFirings' # {} =>
         /\ Starts' = {}
         /\ execs' = execs
         /\ schedules' = schedules
         /\ saves' = saves
         /\ file' = file]_vars

C7_Witness == \E ev \in InactiveFirings : ev.schedule.lastExecutionTime = now - MinuteSec

\* C8: after a firing at the due time is skipped for inactivity, a timer for
\* the next execution of that schedule is pending.
C8_SkipRearms ==
    \A ev \in InactiveFirings : ev.due = now =>
        \E p \in pending : p.schedule.id = ev.id /\ p.due > now

Resolved == {ev \in log : ev.ev = "resolved"}

Saved == {ev \in log : ev.ev = "saved"}

Errors == {ev \in log : ev.ev = "error"}

\* the timer that setupTimerForSchedule stores for s when its next time lies ahead
ArmedFrom(s) ==
    \E p \in pending : /\ p.schedule = s
                        /\ p.due = calculateNextExecutionTime(s, now)
                        /\ s.id \in DOMAIN timers
                        /\ timers[s.id] = p.handle

\* C9 as stated: a successful start always ends with lastExecutionTime = now
\* in the store, the list on disk, and a timer one interval after it.
C9_SuccessAlwaysRecorded ==
    /\ \A ev \in Resolved : findIndex(schedules, ev.id) # 0 /\ Stored(ev.id).lastExecutionTime = now
    /\ \A ev \in Saved :
          /\ findIndex(file, ev.id) # 0
          /\ file[findIndex(file, ev.id)] = ev.schedule
          /\ \E p \in pending :
                /\ p.schedule = ev.schedule
                /\ p.due = AddInterval(ev.schedule.lastExecutionTime, ev.schedule.timeInterval,
                                       ev.schedule.timeUnit)
                /\ p.due > now

\* C9 amended: when the start succeeds and the schedule is still in the
\* list, its lastExecutionTime becomes now and a write of the whole list is
\* issued; when that write settles, a schedule that is active, of type time
\* and has a next time is re-armed from the updated schedule: a timer at the
\* computed next time, strictly ahead and one interval after lastExecutionTime
\* once the start time has passed, or an immediate execution if it is due.
C9_SuccessRecorded ==
    /\ \A ev \in Resolved : findIndex(schedules, ev.id) # 0 =>
          /\ Stored(ev.id).lastExecutionTime = now
          /\ \E w \in saves : w.kind = "execute" /\ w.content = schedules /\ w.updated = Stored(ev.id)
    /\ \A ev \in Saved :
          /\ ev.schedule.lastExecutionTime # Undefined
          /\ (/\ ev.schedule.active # "false"
              /\ ev.schedule.scheduleType = "time"
              /\ calculateNextExecutionTime(ev.schedule, now) # Null) =>
                IF calculateNextExecutionTime(ev.schedule, now) > now
                THEN /\ ArmedFrom(ev.schedule)
                     /\ (now >= startDateTime(ev.schedule) /\ ~HasSelectedDays(ev.schedule)) =>
                            calculateNextExecutionTime(ev.schedule, now)
                              = AddInterval(ev.schedule.lastExecutionTime, ev.schedule.timeInterval,
                                            ev.schedule.timeUnit)
                ELSE \/ \E e \in execs : e.schedule = ev.schedule
                     \/ \E x \in log : x.ev = "skip" /\ x.schedule = ev.schedule

C9_Witness ==
    \E ev \in Saved : ArmedFrom(ev.schedule) /\ ev.schedule.lastExecutionTime = now

\* C10: when the task runner fails, no schedule changes, nothing is written
\* or queued for writing, no error escapes, and the schedule is re-armed from
\* the schedule that fired: a timer at its next time, or an immediate
\* execution if that time is due.
C10_FailureRearms ==
    [][\A ev \in Errors' :
         /\ schedules' = schedules
         /\ file' = file
         /\ saves' = saves
         /\ \A x \in log' : x.ev # "RangeError"
         /\ calculateNextExecutionTime(ev.schedule, now) # Null =>
               IF calculateNextExecutionTime(ev.schedule, now) > now
               THEN ArmedFrom(ev.schedule)'
               ELSE \E e \in execs' : e.schedule = ev.schedule]_vars

C10_Witness == \E ev \in Errors : ArmedFrom(ev.schedule)

\* C11: when a run fails, the handler of the failure does not start the task
\* runner again for that schedule: the retry waits for a later clock time.
C11_NoImmediateRetry ==
    \A ev \in Errors : \A x \in Starts : x.id # ev.id

\* C12: when a firing of a stored schedule that is active, of type time and
\* has a next time has ended (skipped, saved after a success, or failed), the
\* schedule has a pending timer or is being executed again.
C12_NeverStalled ==
    \A ev \in log :
        (/\ ev.ev \in {"fire", "saved", "error"}
         /\ findIndex(schedules, ev.id) # 0
         /\ Stored(ev.id).active # "false"
         /\ Stored(ev.id).scheduleType = "time"
         /\ calculateNextExecutionTime(Stored(ev.id), now) # Null) =>
            \/ LiveTimers(ev.id) # {}
            \/ \E e \in execs : e.schedule.id = ev.id
            \/ \E w \in saves : w.id = ev.id

\* C13: a schedule with an unknown mode never reaches the task runner; its
\* failure changes no schedule and writes nothing, and the schedule is
\* re-armed: a timer at its next time or an immediate execution if it is due.
C13_InvalidModeAbandoned ==
    [][/\ \A x \in Starts' : getModeBySlug(x.schedule.mode)
       /\ \A e \in execs' : e.started => getModeBySlug(e.schedule.mode)
       /\ \A ev \in Errors' : ~getModeBySlug(ev.schedule.mode) =>
             /\ schedules' = schedules
             /\ saves' = saves
             /\ file' = file
             /\ calculateNextExecutionTime(ev.schedule, now) # Null =>
                   IF calculateNextExecutionTime(ev.schedule, now) > now
                   THEN ArmedFrom(ev.schedule)'
                   ELSE \E e \in execs' : e.schedule = ev.schedule /\ ~e.started]_vars

C13_Witness == \E ev \in Errors : ~getModeBySlug(ev.schedule.mode) /\ ArmedFrom(ev.schedule)

WriteErrors == {ev \in log : ev.ev = "writeError"}

\* C14: a failed write of the store changes neither the list in memory nor
\* the file, and the caller continues as after a successful write: the
\* updated schedule is re-armed (a timer at its next time or an immediate
\* execution), or on deactivation the timer of the schedule is cancelled.
C14_WriteFailureOnlyLogged ==
    [][\A w \in saves : (w \notin saves' /\ WriteErrors' # {}) =>
         /\ schedules' = schedules
         /\ file' = file
         /\ IF w.kind = "execute" \/ w.active = "true"
            THEN (/\ w.updated.active # "false"
                  /\ w.updated.scheduleType = "time"
                  /\ calculateNextExecutionTime(w.updated, now) # Null) =>
                     IF calculateNextExecutionTime(w.updated, now) > now
                     THEN ArmedFrom(w.updated)'
                     ELSE \/ \E e \in execs' : e.schedule = w.updated
                          \/ \E x \in log' : x.ev = "skip" /\ x.schedule = w.updated
            ELSE /\ w.id \notin DOMAIN timers'
                 /\ w.id \in DOMAIN timers => \A p \in pending' : p.handle # timers[w.id]]_vars

C14_Witness == \E ev \in WriteErrors : ArmedFrom(ev.schedule) /\ file # schedules

\* C15: when setupTimers has run after a load, every pending timer is the one
\* this call stored for a schedule of the loaded list that is active and of
\* type time (no timer armed earlier survives, none belongs to an inactive or
\* absent schedule), and every such schedule with a next time has its timer
\* or, when due, was executed.
C15_ArmAllResets ==
    [][(\E r \in reloads : r \notin reloads') =>
         /\ \A p \in pending' :
               /\ p.schedule.id \in DOMAIN timers'
               /\ timers'[p.schedule.id] = p.handle
               /\ findIndex(schedules', p.schedule.id) # 0
               /\ schedules'[findIndex(schedules', p.schedule.id)] = p.schedule
               /\ p.schedule.active # "false"
               /\ p.schedule.scheduleType = "time"
         /\ \A s \in {schedules'[i] : i \in 1..Len(schedules')} :
               (/\ s.active # "false"
                /\ s.scheduleType = "time"
                /\ calculateNextExecutionTime(s, now) # Null) =>
                   IF calculateNextExecutionTime(s, now) > now
                   THEN ArmedFrom(s)'
                   ELSE \/ \E e \in execs' : e.schedule = s
                        \/ \E x \in log' : x.ev = "skip" /\ x.schedule = s]_vars

\* the schedule objects the executions whose write settled in the last step started with
Ran == {ev \in log : ev.ev = "ran"}

\* the interval of s, in seconds
IntervalSec(s) == s.timeInterval * UnitSec(s.timeUnit)

\* C16: a handler that starts the task runner stores no timer for that
\* schedule; and when an execution that was overdue by two intervals or more
\* has been recorded, the updated schedule is armed exactly one interval
\* after that execution and is not started again in the meantime (or, when
\* that time has already come, it is executed again).
C16_OverdueRunsOnce ==
    [][/\ \A x \in Starts' : \A p \in pending' : p.schedule.id = x.id => p \in pending
       /\ \A w \in saves :
            (/\ w \notin saves'
             /\ w.kind = "execute"
             /\ w.snapshot.lastExecutionTime # Undefined
             /\ w.snapshot.lastExecutionTime + 2 * IntervalSec(w.snapshot) <= w.updated.lastExecutionTime
             /\ w.updated.active # "false"
             /\ w.updated.scheduleType = "time"
             /\ ~HasSelectedDays(w.updated)
             /\ now >= startDateTime(w.updated)
             /\ calculateNextExecutionTime(w.updated, now) # Null) =>
                /\ calculateNextExecutionTime(w.updated, now)
                     = w.updated.lastExecutionTime + IntervalSec(w.updated)
                /\ IF calculateNextExecutionTime(w.updated, now) > now
                   THEN /\ ArmedFrom(w.updated)'
                        /\ \A x \in Starts' : x.id # w.id
                        /\ \A e \in execs' : e \in execs
                   ELSE \/ \E e \in execs' : e.schedule = w.updated
                        \/ \E x \in log' : x.ev = "skip" /\ x.schedule = w.updated]_vars

C16_Witness ==
    \E ev \in Saved, r \in Ran :
        /\ r.id = ev.id
        /\ r.schedule.lastExecutionTime # Undefined
        /\ r.schedule.lastExecutionTime + 2 * IntervalSec(r.schedule) <= ev.schedule.lastExecutionTime
        /\ ArmedFrom(ev.schedule)
        /\ Starts = {}

\* C17: toggleScheduleActive(id, true) on an inactive schedule sets the stored
\* flag to true and issues a write of the list; when the call returns, the
\* schedule has exactly one pending timer, at its computed next time, or was
\* executed at once because it was due, or has no next time.
C17_ActivateArmsOne ==
    [][/\ \A w \in saves' \ saves :
            (w.kind = "toggle" /\ w.active = "true" /\ w.snapshot.active = "false") =>
                /\ Stored(w.id)'.active = "true"
                /\ w.content = schedules'
       /\ \A w \in saves \ saves' :
            (/\ w.kind = "toggle" /\ w.active = "true" /\ w.snapshot.active = "false"
             /\ w.updated.scheduleType = "time"
             /\ calculateNextExecutionTime(w.updated, now) # Null) =>
                IF calculateNextExecutionTime(w.updated, now) > now
                THEN /\ ArmedFrom(w.updated)'
                     /\ Cardinality(LiveTimers(w.id))' = 1
                ELSE \/ \E e \in execs' : e.schedule = w.updated
                     \/ \E x \in log' : x.ev = "skip" /\ x.schedule = w.updated]_vars

\* the schedules of the file and of the loaded list
Inputs == {file[i] : i \in 1..Len(file)} \cup {schedules[i] : i \in 1..Len(schedules)}

Schedulable(s) == s.timeInterval # Undefined /\ s.timeUnit # "undefined" /\ s.startDate # Undefined

Expired(s, t) == s.expirationDate # Undefined /\ t > expirationDateTime(s)

\* C18: for a schedule with an expiration and a clock after the expiration
\* instant the next execution time is null, whatever its start, last
\* execution and selected days, and setupTimerForSchedule arms no timer and
\* starts no execution for it.
C18_ExpiredIsDormant ==
    \A s \in Inputs : Expired(s, now) =>
        /\ calculateNextExecutionTime(s, now) = Null
        /\ reloads = {} => (pending = {} /\ execs = {} /\ Starts = {} /\ timers = <<>>)

C18_Witness ==
    \E s \in Inputs :
        /\ Expired(s, now)
        /\ now >= startDateTime(s)
        /\ s.lastExecutionTime # Undefined
        /\ HasSelectedDays(s)
        /\ reloads = {}
        /\ schedules = <<s>>

C20_ReferenceIsLatest ==
    reloads = {} =>
        \A s \in Inputs :
            LET reference == IF s.lastExecutionTime > s.lastSkippedTime
                             THEN s.lastExecutionTime ELSE s.lastSkippedTime
            IN (/\ Schedulable(s) /\ ~Expired(s, now) /\ now >= startDateTime(s)
                /\ ~HasSelectedDays(s)
                /\ (s.lastExecutionTime # Undefined \/ s.lastSkippedTime # Undefined)) =>
                   /\ calculateNextExecutionTime(s, now) = reference + IntervalSec(s)
                   /\ (reference + IntervalSec(s) > now /\ s.active # "false" /\ s.scheduleType = "time") =>
                         \E p \in pending : p.schedule = s /\ p.due = reference + IntervalSec(s)

\* C21: for a schedule that never ran and was never skipped, whose
\* startDateTime lies in the past, the next execution time before the
\* adjustment to the selected days is startDateTime plus
\* ceil((now - startDateTime) / interval) intervals: a whole number of
\* intervals after the start, not before now and less than one interval
\* after now; the timer is armed for it, or the execution starts when it is now.
C21_FirstExecutionOnGrid ==
    \A s \in Inputs :
        (/\ Schedulable(s) /\ ~Expired(s, now) /\ now > startDateTime(s)
         /\ s.lastExecutionTime = Undefined /\ s.lastSkippedTime = Undefined
         /\ ~HasSelectedDays(s)) =>
            LET r == calculateNextExecutionTime(s, now)
            IN /\ r = startDateTime(s)
                         + Ceil(now - startDateTime(s), IntervalSec(s)) * IntervalSec(s)
               /\ r > startDateTime(s)
               /\ (r - startDateTime(s)) % IntervalSec(s) = 0
               /\ r >= now
               /\ r < now + IntervalSec(s)
               /\ (reloads = {} /\ s.active # "false" /\ s.scheduleType = "time") =>
                     IF r > now
                     THEN \E p \in pending : p.schedule = s /\ p.due = r
                     ELSE \E ev \in Starts : ev.schedule = s

C21_Witness ==
    \E s \in Inputs :
        /\ Schedulable(s) /\ ~Expired(s, now) /\ ~HasSelectedDays(s)
        /\ s.lastExecutionTime = Undefined /\ s.lastSkippedTime = Undefined
        /\ now - startDateTime(s) > IntervalSec(s)
        /\ (now - startDateTime(s)) % IntervalSec(s) # 0
        /\ \E p \in pending :
              /\ p.schedule = s
              /\ p.due = calculateNextExecutionTime(s, now)
              /\ p.due > now

\* C22: for a schedule with at least one selected day every non-null next
\* execution time falls on a selected day of the week, also when it is
\* returned because now is before startDateTime, and so does the instant
\* its timer is armed for.
C22_ResultOnSelectedDay ==
    reloads = {} =>
        \A s \in Inputs :
            (HasSelectedDays(s) /\ calculateNextExecutionTime(s, now) # Null) =>
                /\ DaySelected(s, calculateNextExecutionTime(s, now))
                /\ \A p \in pending : p.schedule = s => DaySelected(s, p.due)

\* C23: for a schedule with at least one selected day and a clock not
\* before its start, the next execution time is never null; it is the
\* interval candidate itself when the candidate's day of the week is
\* selected, and otherwise the first later day whose day of the week is
\* selected, at most 7 days on, at the schedule's start hour and minute.
C23_WeekdayAdvance ==
    \A s \in Inputs :
        (Schedulable(s) /\ ~Expired(s, now) /\ now >= startDateTime(s) /\ HasSelectedDays(s)) =>
            LET c == IntervalCandidate(s, now)
                r == calculateNextExecutionTime(s, now)
            IN /\ r # Null
               /\ DaySelected(s, c) => r = c
               /\ ~DaySelected(s, c) =>
                     /\ DaySelected(s, r)
                     /\ r \div DaySec > c \div DaySec
                     /\ (r \div DaySec) - (c \div DaySec) <= DaysChecked
                     /\ r % DaySec = OrZero(s.startHour) * HourSec + OrZero(s.startMinute) * MinuteSec
                     /\ \A d \in ((c \div DaySec) + 1)..((r \div DaySec) - 1) :
                           ~DaySelected(s, d * DaySec)
               /\ (reloads = {} /\ r > now /\ s.active # "false" /\ s.scheduleType = "time") =>
                     \E p \in pending : p.schedule = s /\ p.due = r

C23_Witness ==
    \E s \in Inputs :
        /\ Schedulable(s) /\ ~Expired(s, now) /\ now >= startDateTime(s) /\ HasSelectedDays(s)
        /\ ~DaySelected(s, IntervalCandidate(s, now))
        /\ IntervalCandidate(s, now) % DaySec # startDateTime(s) % DaySec
        /\ \E p \in pending :
              /\ p.schedule = s
              /\ p.due = calculateNextExecutionTime(s, now)
              /\ (p.due \div DaySec) - (IntervalCandidate(s, now) \div DaySec) >= 2

\* C24: for one schedule with its last execution and last skip unchanged,
\* the next execution time does not decrease when the clock advances:
\* whenever it is non-null at now and at a later clock reading, the later
\* result is not earlier than the one at now (the one the timer is armed for).
C24_Monotonic ==
    reloads = {} =>
        \A s \in Inputs : \A t \in ComputeTimes :
            (/\ now <= t
             /\ calculateNextExecutionTime(s, now) # Null
             /\ calculateNextExecutionTime(s, t) # Null) =>
                /\ calculateNextExecutionTime(s, now) <= calculateNextExecutionTime(s, t)
                /\ \A p \in pending : p.schedule = s => p.due <= calculateNextExecutionTime(s, t)

\* C25: every non-null next execution time is strictly after the schedule's
\* effective reference, the greatest of lastExecutionTime, lastSkippedTime
\* and startDateTime, and so is the instant its timer is armed for.
C25_NoPastFire ==
    reloads = {} =>
        \A s \in Inputs :
            (Schedulable(s) /\ calculateNextExecutionTime(s, now) # Null) =>
                /\ calculateNextExecutionTime(s, now) > s.lastExecutionTime
                /\ calculateNextExecutionTime(s, now) > s.lastSkippedTime
                /\ calculateNextExecutionTime(s, now) > startDateTime(s)
                /\ \A p \in pending : p.schedule = s =>
                      /\ p.due > s.lastExecutionTime
                      /\ p.due > s.lastSkippedTime
                      /\ p.due > startDateTime(s)

\* C26: when a schedule with taskInteraction "skip" fires while the task
\* runner reports an active task, no task is started for it, its
\* lastSkippedTime is set to now in the list and a write of the list is
\* under way, from which the schedule is armed again.
C26_SkipPolicy ==
    [][activeTask =>
          /\ \A ev \in Starts' : ev.schedule.taskInteraction # "skip"
          /\ \A ev \in log' :
                (/\ ev.ev = "fire" /\ ev.schedule.taskInteraction = "skip"
                 /\ ev.schedule.active # "false" /\ findIndex(schedules', ev.id) # 0) =>
                    /\ schedules'[findIndex(schedules', ev.id)].lastSkippedTime = now
                    /\ \E w \in saves' : w.id = ev.id /\ w.content = schedules']_vars

\* C27: when a schedule with taskInteraction "interrupt" fires while a task
\* is active, the task runner is asked to interrupt the active task in the
\* same handler, before the scheduled task is started.
C27_InterruptPolicy ==
    [][activeTask =>
          \A ev \in Starts' : ev.schedule.taskInteraction = "interrupt" =>
              \E i \in log' : i.ev = "interrupt" /\ i.id = ev.id]_vars

\* C28: when a schedule with taskInteraction "wait" fires while a task is
\* active, its task is not started in that handler: a start for it happens
\* only in a handler that found the task runner without an active task.
C28_WaitPolicy ==
    [][activeTask => \A ev \in Starts' : ev.schedule.taskInteraction # "wait"]_vars

\* C29: the writes of concurrent executions of two schedules do not
\* overwrite each other: a write that succeeds never removes from the
\* persisted document a lastExecutionTime that an earlier write put there,
\* in whatever order the writes finish, so that once all writes have
\* finished the document holds the updates of both schedules, as the list does.
C29_WritesDoNotOverwrite ==
    [][\A w \in saves : writeFileSettled(w, TRUE) =>
          \A i \in 1..Len(file) :
              /\ findIndex(file', file[i].id) # 0
              /\ file'[findIndex(file', file[i].id)].lastExecutionTime >= file[i].lastExecutionTime]_vars

\* the calls of the task runner that executions of other schedules await
OthersAwaited(id) == {e \in execs : e.schedule.id # id /\ e.started}

\* C30: while the execution of one schedule awaits the task runner, a due
\* timer of another schedule can fire; its firing begins its own execution,
\* the resolution of its task start records lastExecutionTime = now and the
\* end of its write arms its next timer, each leaving the awaited call of
\* the first schedule as it was.
C30_RunnerDoesNotBlock ==
    [][/\ \A p \in pending :
             (/\ p.due <= now /\ OthersAwaited(p.schedule.id) # {}
              /\ \A e \in execs : e.schedule.id # p.schedule.id) => ENABLED TimerFire(p)
       /\ \A p \in pending :
             (TimerFire(p) /\ OthersAwaited(p.schedule.id) # {}) =>
                 /\ OthersAwaited(p.schedule.id) \subseteq execs'
                 /\ (p.schedule.active # "false" /\ ~p.schedule.requireActivity) =>
                       \E e \in execs' \ execs : e.schedule = p.schedule
       /\ \A e \in execs :
             (processTaskResolved(e) /\ OthersAwaited(e.schedule.id) # {}) =>
                 /\ OthersAwaited(e.schedule.id) \subseteq execs'
                 /\ findIndex(schedules, e.schedule.id) # 0 =>
                       schedules'[findIndex(schedules, e.schedule.id)].lastExecutionTime = now
       /\ \A w \in saves : \A ok \in BOOLEAN :
             (writeFileSettled(w, ok) /\ w.kind = "execute" /\ OthersAwaited(w.id) # {}) =>
                 /\ OthersAwaited(w.id) \subseteq execs'
                 /\ calculateNextExecutionTime(w.updated, now) > now => ArmedFrom(w.updated)']_vars

C30_Witness ==
    /\ \E e \in execs : e.schedule.id = 1 /\ e.started /\ e.schedule.lastExecutionTime = Undefined
    /\ findIndex(schedules, 2) # 0
    /\ findIndex(file, 2) # 0
    /\ schedules[findIndex(schedules, 2)].lastExecutionTime = now
    /\ file[findIndex(file, 2)].lastExecutionTime = now
    /\ schedules[findIndex(schedules, 1)].lastExecutionTime = Undefined
    /\ ArmedFrom(schedules[findIndex(schedules, 2)])

\* the list with the field of the first schedule of that id set to the value
\* and nothing else changed: same length, same order, same other schedules
OnlyFieldChanged(id, field, value) ==
    /\ Len(schedules') = Len(schedules)
    /\ \A i \in 1..Len(schedules) :
          schedules'[i] = IF i = findIndex(schedules, id)
                          THEN [schedules[i] EXCEPT ![field] = value]
                          ELSE schedules[i]

\* C31: bookkeeping is changed by execution only. toggleScheduleActive
\* changes the active field of its target and nothing else in the list;
\* setupTimers leaves the list as loadSchedules read it; the firing of a
\* timer, the re-arming after a write or after a failed start leave the
\* list unchanged; a successful start changes lastExecutionTime of the
\* executed schedule only, with the other schedules, the ids and the order kept.
C31_BookkeepingFrame ==
    [][/\ \A id \in Ids : \A active \in {"true", "false"} :
             toggleScheduleActive(id, active) => OnlyFieldChanged(id, "active", active)
       /\ \A r \in reloads : loadSchedulesSettled(r) => schedules' = r.content
       /\ \A p \in pending : TimerFire(p) => schedules' = schedules
       /\ \A e \in execs : processTaskRejected(e) => schedules' = schedules
       /\ \A w \in saves : \A ok \in BOOLEAN : writeFileSettled(w, ok) => schedules' = schedules
       /\ \A e \in execs :
             processTaskResolved(e) =>
                 IF findIndex(schedules, e.schedule.id) = 0 THEN schedules' = schedules
                 ELSE OnlyFieldChanged(e.schedule.id, "lastExecutionTime", now)]_vars

\* the active schedule has run and has been toggled, the dormant one before it is as it was
C31_Witness ==
    /\ Len(schedules) = 2
    /\ schedules[1] = DormantSchedule(2)
    /\ schedules[2] = [BaseSchedule(1) EXCEPT !.active = "false", !.lastExecutionTime = now]
    /\ saves = {}
    /\ file = schedules

\* C32: with a store whose bookkeeping is not in the future and a clock
\* that never goes back, the lastExecutionTime of every schedule of the
\* list, of the file and of every write under way is not later than the clock.
C32_LastExecutionNotAhead ==
    /\ \A i \in 1..Len(schedules) : schedules[i].lastExecutionTime <= now
    /\ \A i \in 1..Len(file) : file[i].lastExecutionTime <= now
    /\ \A w \in saves : \A i \in 1..Len(w.content) : w.content[i].lastExecutionTime <= now

\* an execution recorded by the service, the clock having advanced since
C32_Witness ==
    \E i \in 1..Len(schedules) :
        /\ schedules[i].lastExecutionTime >= MinuteSec
        /\ schedules[i].lastExecutionTime < now
        /\ file = schedules

C34_MissingFileDisarms ==
    [][\A r \in reloads :
          (loadSchedulesSettled(r) /\ r.content = <<>>) =>
              /\ schedules' = <<>>
              /\ \A ev \in log' : ev.ev \notin {"error", "RangeError"}
              /\ timers' = <<>>
              /\ pending' = {}]_vars

\* C35: toggleScheduleActive acts only when the state changes: when it
\* changes the list, starts a write, or arms or clears a timer, the id is
\* known and the requested state differs from the current state of the
\* schedule, a schedule without an active field counting as active.
C35_ToggleOnlyOnChange ==
    [][\A id \in Ids : \A active \in {"true", "false"} :
          (/\ toggleScheduleActive(id, active)
           /\ (schedules' # schedules \/ saves' # saves)) =>
              /\ findIndex(schedules, id) # 0
              /\ (schedules[findIndex(schedules, id)].active = "false") # (active = "false")]_vars

\* C36: a schedule whose selectedDays is present with every flag false is
\* scheduled like the same schedule without selectedDays: at every clock
\* reading the next execution time is the same for both, null for the one
\* only when it is null for the other, and the timer is armed for it.
C36_NoFlagIsNoRestriction ==
    \A s \in Inputs :
        (s.hasSelectedDays /\ s.selectedDays = {}) =>
            LET r == calculateNextExecutionTime([s EXCEPT !.hasSelectedDays = FALSE], now)
            IN /\ calculateNextExecutionTime(s, now) = r
               /\ (reloads = {} /\ r # Null /\ r > now /\ s.active # "false" /\ s.scheduleType = "time") =>
                     \E p \in pending : p.schedule = s /\ p.due = r
               /\ (reloads = {} /\ r = Null) => pending = {}

C36_Witness ==
    \E s \in Inputs :
        /\ s.hasSelectedDays /\ s.selectedDays = {}
        /\ now > startDateTime(s)
        /\ getDay(calculateNextExecutionTime(s, now)) # 0
        /\ \E p \in pending :
              /\ p.schedule = s
              /\ p.due = calculateNextExecutionTime([s EXCEPT !.hasSelectedDays = FALSE], now)

\* C37: the timers map tracks exactly the pending timers: every pending
\* timer is the handle stored in the map under the id of its schedule, and
\* every entry of the map is a timer that has neither fired nor been cleared.
C37_MapTracksPending ==
    /\ \A p \in pending : p.schedule.id \in DOMAIN timers /\ timers[p.schedule.id] = p.handle
    /\ \A id \in DOMAIN timers : \E p \in pending : p.handle = timers[id]

\* the executions of the schedule id that await the task runner or the write
\* of their lastExecutionTime
InFlight(id) ==
    Cardinality({e \in execs : e.schedule.id = id})
      + Cardinality({w \in saves : w.kind = "execute" /\ w.id = id})

\* C38: at most one execution of a schedule id is in flight: no second
\* executeSchedule of the schedule starts while an earlier one awaits the
\* task runner or the store write, also when a reload or a toggle arms the
\* schedule again meanwhile.
C38_OneExecutionInFlight ==
    \A id \in Ids : InFlight(id) <= 1

\* C39: with the service as the only writer of the file, a recorded
\* execution is not lost by a reload: the lastExecutionTime of a schedule of
\* the list never decreases while the schedule stays in the list, however
\* the read, the replacement of the list and the re-arming of a reload
\* interleave with the update and the write of an execution.
C39_ExecutionNotLost ==
    [][\A i \in 1..Len(schedules) :
          findIndex(schedules', schedules[i].id) # 0 =>
              schedules'[findIndex(schedules', schedules[i].id)].lastExecutionTime
                  >= schedules[i].lastExecutionTime]_vars

====
